---- MODULE Spec2Model ----
(***************************************************************************)
(* cirrus-run: the request/poll core.                                      *)
(*                                                                         *)
(*   wait_build      src/cirrus_run/queries.py, lines 90-134               *)
(*   build_log       src/cirrus_run/queries.py, lines 137-164              *)
(*   CirrusAPI.call  the transport, as section 4.1 of the specification    *)
(*                   describes it and src/tests/test_api_long_delay.py     *)
(*                   exercises it                                          *)
(*                                                                         *)
(* One behaviour of the model is one invocation of one operation: Init     *)
(* chooses the operation (op) and its arguments, the actions are the steps *)
(* of that operation.  Time is a discrete clock.  For wait_build one unit  *)
(* is a third of the poll interval; for the transport one unit is 1/40 of  *)
(* the long retry delay of the test (0.025 s).                             *)
(***************************************************************************)
EXTENDS Integers, Sequences, FiniteSets, TLC

(***************************************************************************)
(* Text.  A Python str is modelled as a sequence of characters, so that    *)
(* the substring test (the `in` operator) is computed, not assumed.        *)
(***************************************************************************)

\* A mutant of Contains: any common character counts as a match.
ContainsAnyChar(pat, msg) ==
    \E i \in 1..Len(pat) : \E j \in 1..Len(msg) : pat[i] = msg[j]

\* Python `pat in msg` for two str: pat occurs in msg as a contiguous slice.
Contains(pat, msg) ==
    \E i \in 0..(Len(msg) - Len(pat)) : SubSeq(msg, i + 1, i + Len(pat)) = pat

(***************************************************************************)
(* wait_build: constants and inputs                                        *)
(***************************************************************************)

\* queries.py:92
ERROR_CONFIRM_TIMES == 3

\* The status strings the service may send: the eight of the schema and two
\* that the schema does not list.
Statuses ==
    {"COMPLETED", "CREATED", "TRIGGERED", "EXECUTING",
     "NEEDS_APPROVAL", "FAILED", "ABORTED", "ERRORED",
     "PAUSED", "completed"}

\* The classes of section 4.2 of the specification, for the history variables
\* and the properties; the code's own tests are IsActive and IsErrorCandidate.
ActiveStatuses == {"CREATED", "TRIGGERED", "EXECUTING"}
ErrorCandidateStatuses == {"NEEDS_APPROVAL", "FAILED", "ABORTED", "ERRORED"}

\* A mutant of IsCompleted: a misspelt status string.
IsCompletedTypo(s) == s \in {"COMPLETE"}

\* status in {'COMPLETED'}, queries.py:114.
IsCompleted(s) == s \in {"COMPLETED"}

\* A mutant of IsActive: one status of the set forgotten.
IsActiveNoTriggered(s) == s \in {"CREATED", "EXECUTING"}

\* status in {'CREATED', 'TRIGGERED', 'EXECUTING'}, queries.py:116.
IsActive(s) == s \in {"CREATED", "TRIGGERED", "EXECUTING"}

\* A mutant of IsErrorCandidate: the last test written as a bare else.
IsErrorCandidateElse(s) == TRUE

\* status in {'NEEDS_APPROVAL', 'FAILED', 'ABORTED', 'ERRORED'}, queries.py:120.
IsErrorCandidate(s) == s \in {"NEEDS_APPROVAL", "FAILED", "ABORTED", "ERRORED"}

\* Notification messages and the task lists a GetBuild response may carry.
\* A task is the sequence of its notification messages.
MsgOk == <<"o", "k">>
MsgPartial == <<"c", "o", "r">>
MsgCredits == <<"n", "o", "c", "r", "!">>
TaskLists ==
    { <<>>,
      << <<MsgOk>>, <<>> >>,
      << <<MsgPartial>> >>,
      << <<MsgOk>>, <<MsgPartial, MsgCredits>> >> }

\* credits_error_message: None (the default) or a str.
NoCreditsMessage == [isNone |-> TRUE, text |-> <<>>]
CreditsMessages ==
    { NoCreditsMessage,
      [isNone |-> FALSE, text |-> <<"c", "r">>] }

\* Bounds of the model.
\* The poll interval, in clock units (a multiple of 3, so that two thirds
\* of it is a whole number of units).
PollDelay == 3
\* The largest overall timeout tried, in clock units.
MaxAbort == 13
\* The longest time one api(query, params) call takes, in clock units.
MaxApiTime == 2

\* The number of polled statuses the history keeps.
HistoryLen == 3

Aborts == {0, 1, MaxAbort}

VARIABLES
    op,                     \* the operation this behaviour runs
    \* wait_build
    delay,                  \* argument delay
    abort,                  \* argument abort
    credits_error_message,  \* argument credits_error_message
    errors_confirmed,       \* local errors_confirmed
    time_start,             \* local time_start
    now,                    \* the value time() returns
    pc,                     \* position in wait_build
    response,               \* local response (the build of the last reply)
    sleep_for,              \* argument of the pending sleep() call
    result,                 \* how the call ended: "none" while it runs
    reported,               \* the status named in the raised error's message
    recent,                 \* history: the last HistoryLen statuses polled
    queries,                \* history: number of GetBuild queries sent
    last_active,            \* history: the number of the last query answered
                            \* with an Active status, 0 when there is none
    recovered               \* history: some Active status was polled right
                            \* after an error candidate

wbVars == <<delay, abort, credits_error_message, errors_confirmed, time_start,
            now, pc, response, sleep_for, result, reported, recent, queries,
            last_active, recovered>>

\* CirrusAPI.__call__
VARIABLES
    api_pc,        \* position in __call__: "request", "sleep", "done"
    api_now,       \* time elapsed since the call started
    sent,          \* number of requests sent
    replies,       \* history: the replies received, in order
    slept,         \* history: the delays slept, in order
    api_sleep,     \* argument of the pending sleep() call
    log_count,     \* number of 'API server asked for longer retry delay' records
    api_result     \* how the call ended: "none" while it runs

apiVars == <<api_pc, api_now, sent, replies, slept, api_sleep, log_count, api_result>>

\* build_log
VARIABLES
    log_pc,        \* position in build_log: "start", "task", "command", "body", "done"
    log_tasks,     \* response['build']['tasks']
    log_ti,        \* index of the task of the outer loop
    log_ci,        \* index of the command of the inner loop
    chunks,        \* the chunks yielded so far, in order
    fetched,       \* history: url and status code of every api.get, in order
    log_result     \* how the generator ended: "none" while it runs

logVars == <<log_pc, log_tasks, log_ti, log_ci, chunks, fetched, log_result>>

NoResponse == [status |-> "", tasks |-> <<>>]

\* A mutant of CreditsFound: only the first task is looked at.
CreditsFoundFirstTask(tasks, text) ==
    /\ Len(tasks) >= 1
    /\ \E n \in 1..Len(tasks[1]) : Contains(text, tasks[1][n])

\* The for loops of queries.py:127-130.
CreditsFound(tasks, text) ==
    \E t \in 1..Len(tasks) :
        \E n \in 1..Len(tasks[t]) : Contains(text, tasks[t][n])

\* History: the window of the last HistoryLen observations.
Remember(hist, s) ==
    LET all == Append(hist, s)
    IN  IF Len(all) > HistoryLen
        THEN SubSeq(all, Len(all) - HistoryLen + 1, Len(all))
        ELSE all

\* A mutant of ErrorSleep: the divisor is the threshold itself.
ErrorSleepTwoThirds(d) == (2 * d) \div ERROR_CONFIRM_TIMES

\* sleep() after an error candidate below the threshold, queries.py:123.
\* 2 * delay is a multiple of ERROR_CONFIRM_TIMES - 1, so the quotient is exact.
ErrorSleep(d) == (2 * d) \div (ERROR_CONFIRM_TIMES - 1)

\* sleep() after an Active status, queries.py:118.
ActiveSleep(d) == d

WaitBuildInit ==
    /\ delay = PollDelay
    /\ abort \in Aborts
    /\ credits_error_message \in CreditsMessages
    /\ errors_confirmed = 0
    /\ time_start = 0
    /\ now = 0
    /\ pc = "loop"
    /\ response = NoResponse
    /\ sleep_for = 0
    /\ result = "none"
    /\ reported = ""
    /\ recent = <<>>
    /\ queries = 0
    /\ last_active = 0
    /\ recovered = FALSE

\* A mutant of TimeLeft: the comparison includes the boundary.
TimeLeftInclusive == now <= time_start + abort

\* A mutant of TimeLeft: the start of the wait is read anew at every test.
TimeLeftFromNow == now < now + abort

\* A mutant of TimeLeft: abort taken as minutes where time() counts seconds.
TimeLeftMinutes == now < time_start + 60 * abort

\* The loop condition, queries.py:110.
TimeLeft == now < time_start + abort

\* while time() < time_start + abort, and the raise after the loop (line 134).
LoopCheck ==
    /\ op = "wait_build"
    /\ pc = "loop"
    /\ IF TimeLeft
       THEN /\ pc' = "poll"
            /\ UNCHANGED result
       ELSE /\ pc' = "done"
            /\ result' = "CirrusTimeoutError"
    /\ UNCHANGED <<op, delay, abort, credits_error_message, errors_confirmed,
                   time_start, now, response, sleep_for, reported, recent, queries,
                   last_active, recovered, apiVars, logVars>>

\* api(query, params) raises: the exception leaves wait_build (line 111).
PollRaises ==
    /\ op = "wait_build"
    /\ pc = "poll"
    /\ \E t \in 0..MaxApiTime : now' = now + t
    /\ queries' = queries + 1
    /\ pc' = "done"
    /\ result' = "CirrusHTTPError"
    /\ UNCHANGED <<op, delay, abort, credits_error_message, errors_confirmed,
                   time_start, response, sleep_for, reported, recent, last_active,
                   recovered, apiVars, logVars>>

\* A mutant of ResetCounter: an Active status takes one observation back.
ResetCounterDecrement(n) == IF n > 0 THEN n - 1 ELSE 0

\* A mutant of ResetCounter: the reset forgotten.
ResetCounterKeep(n) == n

\* The counter after an Active status, queries.py:117.
ResetCounter(n) == 0

\* A mutant of BumpCounter: the increment counts double.
BumpCounterByTwo(n) == n + 2

\* The counter after an error candidate, queries.py:121.
BumpCounter(n) == n + 1

\* A mutant of BelowThreshold: the comparison off by one.
BelowThresholdOffByOne(n) == n <= ERROR_CONFIRM_TIMES

\* errors_confirmed < ERROR_CONFIRM_TIMES, queries.py:122.
BelowThreshold(n) == n < ERROR_CONFIRM_TIMES

\* A mutant of CreditsConfigured: the test for None left out.
CreditsConfiguredAlways(m) == TRUE

\* credits_error_message is not None, queries.py:126.
CreditsConfigured(m) == ~m.isNone

\* A mutant of ReportedStatus: the status that began the run of error
\* candidates is kept and reported.
ReportedStatusFirst(s) == recent[Len(recent) - 1]

\* The status formatted into the message of CirrusBuildError, queries.py:132.
ReportedStatus(s) == s

\* The statements of the loop body after the reply with status s and tasks
\* ts has arrived, queries.py:112-133.
LoopBody(s, ts) ==
    /\ response' = [status |-> s, tasks |-> ts]
    /\ recent' = Remember(recent, s)
    /\ last_active' = IF s \in ActiveStatuses THEN queries' ELSE last_active
    /\ recovered' = (recovered \/ (/\ s \in ActiveStatuses
                                   /\ Len(recent) >= 1
                                   /\ recent[Len(recent)] \in ErrorCandidateStatuses))
    /\ IF IsCompleted(s)
       THEN /\ pc' = "done"
            /\ result' = "True"
            /\ UNCHANGED <<errors_confirmed, sleep_for, reported>>
       ELSE IF IsActive(s)
       THEN /\ errors_confirmed' = ResetCounter(errors_confirmed)
            /\ sleep_for' = ActiveSleep(delay)
            /\ pc' = "sleep"
            /\ UNCHANGED <<result, reported>>
       ELSE IF IsErrorCandidate(s)
       THEN /\ errors_confirmed' = BumpCounter(errors_confirmed)
            /\ IF BelowThreshold(errors_confirmed')
               THEN /\ sleep_for' = ErrorSleep(delay)
                    /\ pc' = "sleep"
                    /\ UNCHANGED <<result, reported>>
               ELSE /\ pc' = "done"
                    /\ IF /\ CreditsConfigured(credits_error_message)
                          /\ CreditsFound(ts, credits_error_message.text)
                       THEN result' = "CirrusCreditsError" /\ reported' = ""
                       ELSE result' = "CirrusBuildError" /\ reported' = ReportedStatus(s)
                    /\ UNCHANGED sleep_for
       ELSE /\ pc' = "done"
            /\ result' = "ValueError"
            /\ reported' = s
            /\ UNCHANGED <<errors_confirmed, sleep_for>>

\* A mutant of Classify: a reply that arrives past the deadline is dropped
\* and the call times out.
ClassifyWithDeadline(s, ts) ==
    IF now' >= time_start + abort
    THEN /\ response' = [status |-> s, tasks |-> ts]
         /\ recent' = Remember(recent, s)
         /\ pc' = "done"
         /\ result' = "CirrusTimeoutError"
         /\ UNCHANGED <<errors_confirmed, sleep_for, reported, last_active, recovered>>
    ELSE LoopBody(s, ts)

\* What the call does with a reply: the loop body runs on it, whatever the
\* time is by then (no test of the clock between lines 111 and 133).
Classify(s, ts) == LoopBody(s, ts)

\* One pass of the loop body: the query is sent, the reply classified.
Poll ==
    /\ op = "wait_build"
    /\ pc = "poll"
    /\ \E t \in 0..MaxApiTime : now' = now + t
    /\ queries' = queries + 1
    /\ \E s \in Statuses : \E ts \in TaskLists : Classify(s, ts)
    /\ UNCHANGED <<op, delay, abort, credits_error_message, time_start, apiVars, logVars>>

\* sleep(...) followed by continue, queries.py:118-119 and 123-124.
Sleep ==
    /\ op = "wait_build"
    /\ pc = "sleep"
    /\ now' = now + sleep_for
    /\ pc' = "loop"
    /\ UNCHANGED <<op, delay, abort, credits_error_message, errors_confirmed,
                   time_start, response, sleep_for, result, reported, recent, queries,
                   last_active, recovered, apiVars, logVars>>

(***************************************************************************)
(* CirrusAPI.__call__ (the Transport).  Modelled from section 4.1 of the   *)
(* specification; the replies and the delays are those of                  *)
(* src/tests/test_api_long_delay.py.                                       *)
(***************************************************************************)

\* The attempt budget: 1 initial request + 3 retries (test, lines 46 and 77).
ATTEMPTS == 4
\* api.RETRY_DELAY = 0.1 (test, line 13), in clock units of 0.025 s.
RETRY_DELAY == 4
\* api.RETRY_LONG_DELAY = 1 (test, line 14), in clock units of 0.025 s.
RETRY_LONG_DELAY == 40

\* Bound of the model: the longest time one HTTP request takes, in clock
\* units.  A request takes at least one unit: the clock is monotonic and a
\* request takes time.
MaxLatency == 2

\* The text the transport looks for in the body of a failed reply.
RetryHint == <<"3", "0", "s">>
\* Reply bodies: empty (test, lines 53-59), with the hint (test, lines 21-28),
\* with a part of the hint only.
BodyEmpty == <<>>
BodyHint == <<"e", "r", "r", "3", "0", "s", ".">>
BodyPartial == <<"3", "0">>

\* The replies of the service: transient server errors, and 200 with a
\* payload that holds either data or a GraphQL error list.
ServerErrors ==
    [status_code : {500, 502}, body : {BodyEmpty, BodyHint, BodyPartial},
     payload : {"none"}]
Successes ==
    [status_code : {200}, body : {BodyEmpty}, payload : {"data", "errors"}]
Replies == ServerErrors \cup Successes

ApiInit ==
    /\ api_pc = "request"
    /\ api_now = 0
    /\ sent = 0
    /\ replies = <<>>
    /\ slept = <<>>
    /\ api_sleep = 0
    /\ log_count = 0
    /\ api_result = "none"

\* An attempt fails on a reply of the 5xx class.
IsTransient(r) == r.status_code >= 500 /\ r.status_code <= 599

\* The reply body carries the retry hint.
HasHint(r) == Contains(RetryHint, r.body)

\* A mutant of WantsLongDelay: every failed attempt looks at the hint.
WantsLongDelayEveryAttempt(n, r) == HasHint(r)

\* The long delay is taken after the first failed attempt only, and only
\* when the hint is present (section 4.1, rule 2).
WantsLongDelay(n, r) == n = 1 /\ HasHint(r)

\* A mutant of RetryDelay: the short delay doubles with every attempt.
RetryDelayDoubling(n, r) ==
    IF WantsLongDelay(n, r) THEN RETRY_LONG_DELAY ELSE RETRY_DELAY * (2 ^ (n - 1))

\* The delay slept after the n-th attempt failed with reply r (rules 2, 3).
RetryDelay(n, r) == IF WantsLongDelay(n, r) THEN RETRY_LONG_DELAY ELSE RETRY_DELAY

\* A mutant of MayRetry: the comparison off by one.
MayRetryOffByOne(n) == n <= ATTEMPTS

\* The attempt budget is not used up after n attempts (rule 4).
MayRetry(n) == n < ATTEMPTS

\* One attempt: the request is sent, the reply r arrives, the call decides.
Request ==
    /\ op = "call"
    /\ api_pc = "request"
    /\ \E t \in 1..MaxLatency : api_now' = api_now + t
    /\ sent' = sent + 1
    /\ \E r \in Replies :
        /\ replies' = Append(replies, r)
        /\ IF IsTransient(r)
           THEN IF MayRetry(sent')
                THEN /\ api_sleep' = RetryDelay(sent', r)
                     /\ log_count' = IF WantsLongDelay(sent', r)
                                     THEN log_count + 1 ELSE log_count
                     /\ api_pc' = "sleep"
                     /\ UNCHANGED api_result
                ELSE /\ api_pc' = "done"
                     /\ api_result' = "CirrusHTTPError"
                     /\ UNCHANGED <<api_sleep, log_count>>
           ELSE /\ api_pc' = "done"
                /\ api_result' = IF r.payload = "errors"
                                 THEN "CirrusHTTPError" ELSE "data"
                /\ UNCHANGED <<api_sleep, log_count>>
    /\ UNCHANGED <<op, slept, wbVars, logVars>>

\* The delay before the next attempt.
RetrySleep ==
    /\ op = "call"
    /\ api_pc = "sleep"
    /\ api_now' = api_now + api_sleep
    /\ slept' = Append(slept, api_sleep)
    /\ api_pc' = "request"
    /\ UNCHANGED <<op, sent, replies, api_sleep, log_count, api_result, wbVars, logVars>>

(***************************************************************************)
(* build_log, queries.py:137-164.  A chunk is a sequence of text pieces    *)
(* (the pieces of the formatted string) or, for a log body, the sequence   *)
(* of the characters of the fetched text.                                  *)
(***************************************************************************)

\* The task lists a GetBuildLog response may carry: no task; two tasks, the
\* first with two commands and the second with none; three tasks with a
\* command name that occurs in two of them.
BuildEmpty == <<>>
BuildTwoTasks ==
    << [id |-> "1", name |-> "lint", commands |-> <<"clone", "main">>],
       [id |-> "2", name |-> "test", commands |-> <<>>] >>
BuildThreeTasks ==
    << [id |-> "7", name |-> "build", commands |-> <<"clone">>],
       [id |-> "8", name |-> "docs", commands |-> <<>>],
       [id |-> "9", name |-> "check", commands |-> <<"clone", "main">>] >>
Builds == {BuildEmpty, BuildTwoTasks, BuildThreeTasks}

\* The replies of api.get(url): a status code and a text.
GetReplies == [status_code : {200, 204, 404, 500}, text : {<<"l", "o", "g">>, <<>>}]

\* '\n## Task: {task[name]}', queries.py:156.
TaskHeader(task) == <<"\n## Task: ", task.name>>

\* '\n## Task instruction: {command[name]}', queries.py:158.
CommandHeader(command) == <<"\n## Task instruction: ", command>>

\* url_template.format(**locals()), queries.py:153 and 159.
LogUrl(task, command) ==
    <<"https://api.cirrus-ci.com/v1/task/", task.id, "/logs/", command, ".log">>

\* 'Unable to fetch url: {}'.format(url), queries.py:164.
Unable(url) == <<"Unable to fetch url: ">> \o url

\* A mutant of FetchOk: only the server errors count as failures.
FetchOkNoServerError(r) == r.status_code < 500

\* log.status_code == 200, queries.py:161.
FetchOk(r) == r.status_code = 200

\* for task in response['build']['tasks'], from task number ti on (line 155).
StartTask(tasks, ti) ==
    IF ti <= Len(tasks)
    THEN [pc |-> "task", ti |-> ti, ci |-> 0]
    ELSE [pc |-> "done", ti |-> ti, ci |-> 0]

\* A mutant of StartCommand: the inner loop leaves after the first command.
StartCommandFirstOnly(tasks, ti, ci) ==
    IF ci <= Len(tasks[ti].commands) /\ ci <= 1
    THEN [pc |-> "command", ti |-> ti, ci |-> ci]
    ELSE StartTask(tasks, ti + 1)

\* for command in task['commands'], from command number ci on (line 157).
StartCommand(tasks, ti, ci) ==
    IF ci <= Len(tasks[ti].commands)
    THEN [pc |-> "command", ti |-> ti, ci |-> ci]
    ELSE StartTask(tasks, ti + 1)

BuildLogInit ==
    /\ log_pc = "start"
    /\ log_tasks = <<>>
    /\ log_ti = 0
    /\ log_ci = 0
    /\ chunks = <<>>
    /\ fetched = <<>>
    /\ log_result = "none"

\* The generator moves to position p; past the last task it ends.
GoTo(p) ==
    /\ log_pc' = p.pc
    /\ log_ti' = p.ti
    /\ log_ci' = p.ci
    /\ log_result' = IF p.pc = "done" THEN "end" ELSE log_result

\* response = api(query, params), queries.py:154.
LogQuery ==
    /\ op = "build_log"
    /\ log_pc = "start"
    /\ \E b \in Builds :
        /\ log_tasks' = b
        /\ GoTo(StartTask(b, 1))
    /\ UNCHANGED <<op, chunks, fetched, wbVars, apiVars>>

\* api(query, params) raises: the exception leaves the generator (line 154).
LogQueryRaises ==
    /\ op = "build_log"
    /\ log_pc = "start"
    /\ log_pc' = "done"
    /\ log_result' = "CirrusHTTPError"
    /\ UNCHANGED <<op, log_tasks, log_ti, log_ci, chunks, fetched, wbVars, apiVars>>

\* yield of the task header, queries.py:156.
YieldTask ==
    /\ op = "build_log"
    /\ log_pc = "task"
    /\ chunks' = Append(chunks, TaskHeader(log_tasks[log_ti]))
    /\ GoTo(StartCommand(log_tasks, log_ti, 1))
    /\ UNCHANGED <<op, log_tasks, fetched, wbVars, apiVars>>

\* yield of the command header, queries.py:158.
YieldCommand ==
    /\ op = "build_log"
    /\ log_pc = "command"
    /\ chunks' = Append(chunks, CommandHeader(log_tasks[log_ti].commands[log_ci]))
    /\ log_pc' = "body"
    /\ UNCHANGED <<op, log_tasks, log_ti, log_ci, fetched, log_result, wbVars, apiVars>>

\* The fetch of the log and the yield of its body, queries.py:159-164.
YieldBody ==
    /\ op = "build_log"
    /\ log_pc = "body"
    /\ LET url == LogUrl(log_tasks[log_ti], log_tasks[log_ti].commands[log_ci])
       IN  \E r \in GetReplies :
            /\ fetched' = Append(fetched, [url |-> url, status_code |-> r.status_code])
            /\ chunks' = Append(chunks, IF FetchOk(r) THEN r.text ELSE Unable(url))
    /\ GoTo(StartCommand(log_tasks, log_ti, log_ci + 1))
    /\ UNCHANGED <<op, log_tasks, wbVars, apiVars>>

vars == <<op, wbVars, apiVars, logVars>>

Init ==
    /\ op \in {"wait_build", "call", "build_log"}
    /\ WaitBuildInit
    /\ ApiInit
    /\ BuildLogInit

Next ==
    \/ LoopCheck
    \/ Poll
    \/ PollRaises
    \/ Sleep
    \/ Request
    \/ RetrySleep
    \/ LogQuery
    \/ LogQueryRaises
    \/ YieldTask
    \/ YieldCommand
    \/ YieldBody

Spec == Init /\ [][Next]_vars

\* The call is one thread of control and every api() and sleep() call
\* returns: a step that can be taken is taken.
LiveSpec == Spec /\ WF_vars(Next)

(***************************************************************************)
(* Properties.  The substring relation below is written out from the       *)
(* statements it serves, independently of Contains.                        *)
(***************************************************************************)

EnumeratedStatuses == {"COMPLETED"} \cup ActiveStatuses \cup ErrorCandidateStatuses
ConfirmedFailures == {"CirrusBuildError", "CirrusCreditsError"}

\* text is a contiguous part of msg: msg = before \o text \o after.
IsSubstring(text, msg) ==
    \E a \in 0..Len(msg) : \E b \in a..Len(msg) :
        msg = SubSeq(msg, 1, a) \o text \o SubSeq(msg, b + 1, Len(msg))

\* Some notification message of some task contains text.
SomeNotificationHas(tasks, text) ==
    \E t \in DOMAIN tasks : \E n \in DOMAIN tasks[t] : IsSubstring(text, tasks[t][n])

\* The last k polled statuses are all error candidates.
LastAreErrors(k) ==
    /\ Len(recent) >= k
    /\ \A i \in (Len(recent) - k + 1)..Len(recent) : recent[i] \in ErrorCandidateStatuses

\* This step sends a status query and gets a reply.
Answered == queries' = queries + 1 /\ result' # "CirrusHTTPError"

\* This step sends a status query.
QuerySent == queries' # queries

\* Once the call has ended nothing more is sent and nothing is slept.
EndIsFinal == pc = "done" => (queries' = queries /\ now' = now /\ result' = result)

\* C1: three consecutive polls that return an error-candidate status end
\* the call, at the third, with a build failure or a credits failure, and no
\* status query is sent after it.
C1_ThreeErrorsFail ==
    /\ [](LastAreErrors(3) => (pc = "done" /\ result \in ConfirmedFailures))
    /\ [][LastAreErrors(3) => ~QuerySent]_vars

C1_Witness ==
    /\ LastAreErrors(3)
    /\ result = "CirrusBuildError"
    /\ recent[Len(recent)] # recent[Len(recent) - 1]
    /\ recent[Len(recent) - 1] # recent[Len(recent) - 2]
    /\ queries > 3

\* C2: an Active status polled right after one or two error candidates
\* does not fail the call and puts the counter back at 0; a build or credits
\* failure after an Active status needs three error candidates polled after it.
C2_ActiveResets ==
    /\ [][(Answered /\ Len(recent) >= 1 /\ recent[Len(recent)] \in ErrorCandidateStatuses
             /\ response'.status \in ActiveStatuses)
          => (errors_confirmed' = 0 /\ result' = "none" /\ pc' = "sleep")]_vars
    /\ []((result \in ConfirmedFailures /\ last_active > 0)
          => (queries >= last_active + 3 /\ LastAreErrors(3)))

C2_Witness ==
    /\ result = "CirrusBuildError"
    /\ recovered
    /\ last_active = 2
    /\ queries = 5

\* C3: a poll that returns CREATED, TRIGGERED or EXECUTING does not end the
\* call: the counter becomes 0, the full poll interval is slept, and the
\* timeout check of the next cycle follows.
C3_ActiveKeepsWaiting ==
    /\ [][(Answered /\ response'.status \in ActiveStatuses)
          => (pc' = "sleep" /\ result' = "none" /\ errors_confirmed' = 0
              /\ sleep_for' = delay)]_vars
    /\ [][(pc = "sleep" /\ response.status \in ActiveStatuses)
          => (pc' = "loop" /\ now' = now + delay /\ queries' = queries)]_vars

C3_Witness ==
    /\ pc = "loop"
    /\ recent = <<"CREATED", "TRIGGERED", "EXECUTING">>
    /\ now >= 3 * delay
    /\ errors_confirmed = 0

\* C4: a poll that returns COMPLETED ends the call with success at once,
\* without a sleep or another poll, whatever the counter is.
C4_CompletedReturns ==
    /\ [][(Answered /\ response'.status = "COMPLETED")
          => (pc' = "done" /\ result' = "True" /\ now' <= now + MaxApiTime)]_vars
    /\ [][EndIsFinal]_vars

C4_Witness ==
    /\ result = "True"
    /\ errors_confirmed = 2
    /\ pc = "done"

\* C5: with a credits recognizer configured, a confirmed failure of a build
\* with a notification message that contains the recognizer is a credits
\* failure, never a generic build failure.
C5_CreditsFailure ==
    (/\ op = "wait_build"
     /\ result \in ConfirmedFailures
     /\ ~credits_error_message.isNone
     /\ SomeNotificationHas(response.tasks, credits_error_message.text))
    => result = "CirrusCreditsError"

C5_Witness ==
    /\ result = "CirrusCreditsError"
    /\ Len(response.tasks) = 2
    /\ ~SomeNotificationHas(<<response.tasks[1]>>, credits_error_message.text)

\* C6: a poll that returns a status outside the eight known values ends the
\* call at once with ValueError: no sleep, no further poll, and the counter
\* is not touched.
C6_UnknownStatusRaises ==
    /\ [][(Answered /\ response'.status \notin EnumeratedStatuses)
          => (pc' = "done" /\ result' = "ValueError"
              /\ errors_confirmed' = errors_confirmed
              /\ now' <= now + MaxApiTime)]_vars
    /\ [][(pc = "done" /\ result = "ValueError") => UNCHANGED <<queries, now>>]_vars

C6_Witness ==
    /\ result = "ValueError"
    /\ errors_confirmed = 2
    /\ reported = "PAUSED"

\* C7: a status query is sent only right after the timeout check, in a cycle
\* that starts with the timeout not exceeded; a cycle that starts with the
\* timeout exceeded ends the call with CirrusTimeoutError and sends nothing.
C7_TimeoutBeforePoll ==
    /\ [][QuerySent => (pc = "poll" /\ ~(now - time_start > abort))]_vars
    /\ [][pc' = "poll" => (pc = "loop" /\ now' = now /\ ~(now - time_start > abort))]_vars
    /\ [][(pc = "loop" /\ now - time_start > abort)
          => (pc' = "done" /\ result' = "CirrusTimeoutError" /\ ~QuerySent)]_vars

C7_Witness ==
    /\ result = "CirrusTimeoutError"
    /\ now - time_start > abort
    /\ queries >= 1

\* Every reply received so far is a 5xx.
AllServerErrors == \A i \in DOMAIN replies : replies[i].status_code \in 500..599

\* Every reply body received so far carries the retry hint.
AllHinted == \A i \in DOMAIN replies : IsSubstring(RetryHint, replies[i].body)

\* No reply body received so far carries the retry hint.
NoneHinted == \A i \in DOMAIN replies : ~IsSubstring(RetryHint, replies[i].body)

\* C8: a call whose every attempt gets a 5xx sends exactly 4 requests, never
\* more, and then fails with CirrusHTTPError.
C8_FourRequests ==
    (op = "call" /\ AllServerErrors)
    => /\ sent <= 4
       /\ sent < 4 => api_result = "none"
       /\ api_pc = "done" => (sent = 4 /\ api_result = "CirrusHTTPError")

C8_Witness ==
    /\ op = "call"
    /\ api_pc = "done"
    /\ AllServerErrors
    /\ sent = 4

\* C9: when all 4 attempts fail and every body carries the hint, the long
\* delay is slept after the first failure only and the short delay after the
\* others, the long-delay message is logged once, and the call takes more
\* than D + 2d and less than 3D.
C9_LongDelayOnce ==
    (op = "call" /\ api_pc = "done" /\ Len(replies) = 4 /\ AllServerErrors /\ AllHinted)
    => /\ slept = <<RETRY_LONG_DELAY, RETRY_DELAY, RETRY_DELAY>>
       /\ log_count = 1
       /\ api_now > RETRY_LONG_DELAY + 2 * RETRY_DELAY
       /\ api_now < 3 * RETRY_LONG_DELAY

C9_Witness ==
    /\ op = "call"
    /\ api_pc = "done"
    /\ Len(replies) = 4
    /\ AllServerErrors
    /\ AllHinted
    /\ log_count = 1

\* C10: when all 4 attempts fail and no body carries the hint, only the
\* short delay is slept, the long-delay message is never logged, and the call
\* takes more than 3d and less than D + 2d.
C10_ShortDelaysOnly ==
    (op = "call" /\ api_pc = "done" /\ Len(replies) = 4 /\ AllServerErrors /\ NoneHinted)
    => /\ slept = <<RETRY_DELAY, RETRY_DELAY, RETRY_DELAY>>
       /\ log_count = 0
       /\ api_now > 3 * RETRY_DELAY
       /\ api_now < RETRY_LONG_DELAY + 2 * RETRY_DELAY

C10_Witness ==
    /\ op = "call"
    /\ api_pc = "done"
    /\ Len(replies) = 4
    /\ AllServerErrors
    /\ NoneHinted
    /\ \E i \in DOMAIN replies : replies[i].body # <<>>
    /\ log_count = 0

(***************************************************************************)
(* build_log: what the chunks should be, computed from the task list       *)
(* alone, by recursion over the tasks and their commands.                  *)
(***************************************************************************)

\* What a chunk is: a task header, a command header, or a body.
ChunkShape(c) ==
    IF Len(c) = 2 /\ c[1] = "\n## Task: " THEN <<"task", c[2]>>
    ELSE IF Len(c) = 2 /\ c[1] = "\n## Task instruction: " THEN <<"command", c[2]>>
    ELSE <<"body">>

IsBodyChunk(c) == ChunkShape(c) = <<"body">>

ShapesYielded == [i \in DOMAIN chunks |-> ChunkShape(chunks[i])]

RECURSIVE CommandShapes(_)
CommandShapes(commands) ==
    IF commands = <<>> THEN <<>>
    ELSE << <<"command", Head(commands)>>, <<"body">> >> \o CommandShapes(Tail(commands))

RECURSIVE TaskShapes(_)
TaskShapes(tasks) ==
    IF tasks = <<>> THEN <<>>
    ELSE << <<"task", Head(tasks).name>> >> \o CommandShapes(Head(tasks).commands)
         \o TaskShapes(Tail(tasks))

\* The (task id, command name) pairs, in the order of the service.
RECURSIVE ExpectedFetches(_)
ExpectedFetches(tasks) ==
    IF tasks = <<>> THEN <<>>
    ELSE [i \in DOMAIN Head(tasks).commands |-> <<Head(tasks).id, Head(tasks).commands[i]>>]
         \o ExpectedFetches(Tail(tasks))

IsPrefix(a, b) == Len(a) <= Len(b) /\ a = SubSeq(b, 1, Len(a))

\* C11: the chunks come in the order of the tasks and, within a task, of its
\* commands: a task header, then per command a command header followed by
\* one body; a task without commands yields its header only.
C11_ChunkOrder ==
    op = "build_log"
    => /\ IsPrefix(ShapesYielded, TaskShapes(log_tasks))
       /\ log_result = "end" => ShapesYielded = TaskShapes(log_tasks)
       /\ (log_result = "end" /\ log_tasks = BuildTwoTasks)
          => ShapesYielded = << <<"task", "lint">>,
                                <<"command", "clone">>, <<"body">>,
                                <<"command", "main">>, <<"body">>,
                                <<"task", "test">> >>

C11_Witness ==
    /\ op = "build_log"
    /\ log_result = "end"
    /\ log_tasks = BuildTwoTasks
    /\ Len(chunks) = 6

\* C12: a log fetch that returns a non-success status yields a placeholder
\* naming the url, the stream does not fail, the remaining chunks are still
\* yielded in order, and every command's log url is fetched once.
C12_FetchFailurePlaceholder ==
    op = "build_log"
    => LET bodies == SelectSeq(chunks, IsBodyChunk)
       IN  /\ Len(bodies) = Len(fetched)
           /\ \A k \in DOMAIN fetched :
                fetched[k].status_code \notin 200..299
                => bodies[k] = <<"Unable to fetch url: ">> \o fetched[k].url
           /\ IsPrefix([k \in DOMAIN fetched |-> <<fetched[k].url[2], fetched[k].url[4]>>],
                       ExpectedFetches(log_tasks))
           /\ fetched # <<>> => log_result \in {"none", "end"}
           /\ log_result = "end"
              => /\ Len(fetched) = Len(ExpectedFetches(log_tasks))
                 /\ ShapesYielded = TaskShapes(log_tasks)

C12_Witness ==
    /\ op = "build_log"
    /\ log_result = "end"
    /\ Len(fetched) = 3
    /\ fetched[1].status_code = 404
    /\ fetched[2].status_code = 500
    /\ fetched[3].status_code = 200
    /\ chunks[Len(chunks)] = <<"l", "o", "g">>

\* The call sleeps after an error candidate that did not reach the threshold.
SleepsAfterError == pc = "sleep" /\ response.status \in ErrorCandidateStatuses

\* C13, as stated: the sleep after an error candidate below the threshold is
\* two thirds of the poll interval, shorter than the sleep after an Active
\* status.
C13_TwoThirdsSleep ==
    SleepsAfterError => (3 * sleep_for = 2 * delay /\ sleep_for < delay)

\* C13, amended: the sleep after an error candidate below the threshold is
\* 2 * delay / (ERROR_CONFIRM_TIMES - 1), which is the full poll interval, the
\* same as the sleep after an Active status.
C13_FullIntervalSleep ==
    /\ [](SleepsAfterError => (sleep_for = delay /\ errors_confirmed \in {1, 2}))
    /\ [][SleepsAfterError => now' = now + delay]_vars

C13_Witness ==
    /\ pc = "loop"
    /\ Len(recent) = 2
    /\ recent[1] \in ErrorCandidateStatuses
    /\ recent[2] \in ErrorCandidateStatuses
    /\ errors_confirmed = 2
    /\ now = time_start + 2 * delay

\* C14: the call ends with a build or credits failure only when the three
\* most recent polls all returned an error candidate; an error candidate that
\* is the first or second in a row leads to a sleep, not to a failure.
C14_FailureNeedsThree ==
    /\ [](result \in ConfirmedFailures => (LastAreErrors(3) /\ queries >= 3))
    /\ [][(Answered /\ response'.status \in ErrorCandidateStatuses /\ ~LastAreErrors(2))
          => (pc' = "sleep" /\ result' = "none")]_vars

C14_Witness ==
    /\ result = "CirrusCreditsError"
    /\ LastAreErrors(3)
    /\ queries = 3
    /\ errors_confirmed = 3

\* C15: the timeout is tested at the start of a cycle only.  A reply that
\* arrives when the timeout has run out is still classified by its status and
\* the call never times out on it; CirrusTimeoutError comes from the test at
\* the start of a cycle, in a step that sends nothing.
C15_LateReplyClassified ==
    /\ [][(Answered /\ now' >= time_start + abort)
          => /\ result' # "CirrusTimeoutError"
             /\ response'.status = "COMPLETED" => result' = "True"
             /\ response'.status \notin EnumeratedStatuses => result' = "ValueError"
             /\ (response'.status \in ErrorCandidateStatuses /\ LastAreErrors(2))
                => result' \in ConfirmedFailures]_vars
    /\ [][(result = "none" /\ result' = "CirrusTimeoutError")
          => (pc = "loop" /\ ~QuerySent)]_vars

C15_Witness ==
    /\ result = "CirrusBuildError"
    /\ now > time_start + abort
    /\ abort = MaxAbort

\* C16: a generic build failure carries the status of the last, confirming
\* poll, also when the three error candidates in a row differ.
C16_LastStatusReported ==
    result = "CirrusBuildError"
    => /\ reported = recent[Len(recent)]
       /\ reported = response.status
       /\ reported \in ErrorCandidateStatuses

C16_Witness ==
    /\ result = "CirrusBuildError"
    /\ recent = <<"FAILED", "ABORTED", "ERRORED">>
    /\ reported = "ERRORED"

\* The number of error candidates at the end of a sequence of statuses.
RECURSIVE TrailingErrors(_)
TrailingErrors(seq) ==
    IF seq = <<>> THEN 0
    ELSE IF seq[Len(seq)] \notin ErrorCandidateStatuses THEN 0
    ELSE 1 + TrailingErrors(SubSeq(seq, 1, Len(seq) - 1))

\* C17, as stated: in every state the counter is between 0 and 3, equals the
\* number of error candidates at the end of the statuses polled so far, and
\* is 3 only when the build or credits failure is raised.
C17_CounterIsTrailing ==
    op = "wait_build"
    => /\ errors_confirmed \in 0..3
       /\ errors_confirmed = TrailingErrors(recent)
       /\ errors_confirmed = 3 => result \in ConfirmedFailures

\* C17, amended: the same, as long as the last status polled is an Active one
\* or an error candidate; a COMPLETED or unrecognized status ends the call and
\* leaves the counter at the value it had before that poll.
C17_CounterIsTrailingWhileWaiting ==
    op = "wait_build"
    => /\ errors_confirmed \in 0..3
       /\ recent = <<>> => errors_confirmed = 0
       /\ (recent # <<>> /\ recent[Len(recent)] \in ActiveStatuses \cup ErrorCandidateStatuses)
          => errors_confirmed = TrailingErrors(recent)
       /\ (recent # <<>> /\ recent[Len(recent)] \notin ActiveStatuses \cup ErrorCandidateStatuses)
          => /\ errors_confirmed = TrailingErrors(SubSeq(recent, 1, Len(recent) - 1))
             /\ pc = "done"
       /\ errors_confirmed = 3 => (pc = "done" /\ result \in ConfirmedFailures)

C17_Witness ==
    /\ pc = "done"
    /\ result = "True"
    /\ Len(recent) = 3
    /\ recent[1] \in ActiveStatuses
    /\ recent[2] \in ErrorCandidateStatuses
    /\ errors_confirmed = 1

Outcomes ==
    {"True", "CirrusBuildError", "CirrusCreditsError", "CirrusTimeoutError",
     "ValueError", "CirrusHTTPError"}

\* C18: when every api() call returns and every cycle takes time, the call
\* ends, with one of the six outcomes.  It polls only while the timeout has
\* not run out, so it runs at most one api() call and one sleep past it; a
\* build whose last reply was Active ends with CirrusTimeoutError.
C18_Terminates ==
    /\ <>(op # "wait_build" \/ (pc = "done" /\ result \in Outcomes))
    /\ [](pc = "done" <=> result # "none")
    /\ []((op = "wait_build" /\ pc = "poll") => now - time_start < abort)
    /\ []((op = "wait_build" /\ pc # "done")
          => now - time_start < abort + MaxApiTime + delay)
    /\ []((pc = "done" /\ result # "CirrusHTTPError"
           /\ (queries = 0 \/ response.status \in ActiveStatuses))
          => result = "CirrusTimeoutError")

C18_Witness ==
    /\ pc = "done"
    /\ result = "CirrusTimeoutError"
    /\ recent = <<"EXECUTING", "EXECUTING", "EXECUTING">>
    /\ last_active = queries
    /\ queries >= 4

\* C19: without a credits recognizer (credits_error_message is None) the
\* call never ends with a credits failure: every confirmed failure is a
\* generic build failure, whatever the notifications say.
C19_NoRecognizerNoCreditsFailure ==
    (op = "wait_build" /\ credits_error_message.isNone)
    => /\ result # "CirrusCreditsError"
       /\ LastAreErrors(3) => result = "CirrusBuildError"

C19_Witness ==
    /\ credits_error_message.isNone
    /\ result = "CirrusBuildError"
    /\ SomeNotificationHas(response.tasks, <<"c", "r">>)

\* C20: a cycle that starts with the elapsed time equal to the timeout sends
\* no query and ends the call with CirrusTimeoutError; a call with timeout 0
\* sends no query at all.
C20_TimeoutBoundary ==
    /\ [][(op = "wait_build" /\ pc = "loop" /\ now - time_start = abort)
          => (pc' = "done" /\ result' = "CirrusTimeoutError" /\ ~QuerySent)]_vars
    /\ []((op = "wait_build" /\ abort = 0) => queries = 0)
    /\ []((op = "wait_build" /\ abort = 0 /\ pc = "done") => result = "CirrusTimeoutError")

C20_Witness ==
    /\ result = "CirrusTimeoutError"
    /\ now - time_start = abort
    /\ abort = MaxAbort
    /\ queries >= 1

====
